---- MODULE Spec2Model ----
(***************************************************************************)
(* EllipsoidSampler of uniform_ellipsoid_sampler.py: the constructor, the  *)
(* implicit function f and sample, over tensors of exact rationals.        *)
(*                                                                         *)
(* A tensor is [shape, data]: shape is the tuple torch reports, data the   *)
(* elements in row-major order.  A real is a fraction [n, d] in lowest     *)
(* terms with d >= 0; d = 0 encodes the IEEE specials a division by zero   *)
(* produces: [1,0] = +inf, [-1,0] = -inf, [0,0] = nan.  Rounding and the   *)
(* sign of zero are not modelled.  .cuda() moves a tensor and keeps its    *)
(* shape and values (an accelerator is taken to be present).               *)
(***************************************************************************)
EXTENDS Integers, Sequences, FiniteSets

VARIABLES self, call

vars == <<self, call>>

\* Largest number of dimensions of a constructor argument or of a batch.
MaxDim == 2
\* Largest num_points passed to sample.
MaxPoints == 2
\* Largest number of rows of a batch passed to f by the caller.
MaxBatch == 1

None == [none |-> TRUE]

---------------------------------------------------------------------------
\* Reals

Abs(i) == IF i < 0 THEN -i ELSE i

Sign(i) == IF i < 0 THEN -1 ELSE IF i > 0 THEN 1 ELSE 0

RECURSIVE GCD(_, _)
GCD(a, b) == IF b = 0 THEN a ELSE GCD(b, a % b)

\* The fraction n/d, d >= 0, in lowest terms.
Frac(n, d) ==
    IF d = 0 THEN [n |-> Sign(n), d |-> 0]
    ELSE LET g == GCD(Abs(n), d) IN [n |-> n \div g, d |-> d \div g]

Num(i) == [n |-> i, d |-> 1]

NaN == [n |-> 0, d |-> 0]

IsNaN(a) == a.n = 0 /\ a.d = 0

RAdd(a, b) ==
    IF a.d = 0 /\ b.d = 0
    THEN (IF a.n = b.n THEN a ELSE NaN)
    ELSE Frac(a.n * b.d + b.n * a.d, a.d * b.d)

RNeg(a) == [n |-> -a.n, d |-> a.d]

RSub(a, b) == RAdd(a, RNeg(b))

RMul(a, b) == Frac(a.n * b.n, a.d * b.d)

RDiv(a, b) ==
    IF b.n < 0 THEN Frac(-(a.n * b.d), a.d * (-b.n))
    ELSE Frac(a.n * b.d, a.d * b.n)

\* a <= b as IEEE compares: false when either side is nan.
RLe(a, b) ==
    IF IsNaN(a) \/ IsNaN(b) THEN FALSE
    ELSE IF a.d = 0 /\ b.d = 0 THEN a.n <= b.n
    ELSE a.n * b.d <= b.n * a.d

RGt(a, b) ==
    IF IsNaN(a) \/ IsNaN(b) THEN FALSE ELSE ~RLe(a, b)

RECURSIVE RSum(_)
RSum(s) == IF s = <<>> THEN Num(0) ELSE RAdd(RSum(Tail(s)), Head(s))

---------------------------------------------------------------------------
\* Tensors

RECURSIVE Numel(_)
Numel(shape) == IF shape = <<>> THEN 1 ELSE Head(shape) * Numel(Tail(shape))

Rank(t) == Len(t.shape)

TensorsOf(shape, Values) ==
    {[shape |-> shape, data |-> d] : d \in [1..Numel(shape) -> Values]}

\* The first n values of fn, as a sequence.
RECURSIVE Elements(_, _)
Elements(fn, n) == IF n = 0 THEN <<>> ELSE Append(Elements(fn, n - 1), fn[n])

\* The row and the column of element k of a tensor with M columns.
RowOf(k, M) == ((k - 1) \div M) + 1

ColOf(k, M) == ((k - 1) % M) + 1

\* Element (r, i) of a 2-dimensional tensor.
At(t, r, i) == t.data[(r - 1) * t.shape[2] + i]

\* Row r of a 2-dimensional tensor, as a sequence.
Row(t, r) == SubSeq(t.data, (r - 1) * t.shape[2] + 1, r * t.shape[2])

\* Tensor.cuda(): the same tensor on the accelerator.
cuda(t) == t

---------------------------------------------------------------------------
\* Inputs

\* Components of a centre passed to the constructor.
CenterValues == {Num(0), Num(1)}

\* Components of the axes passed to the constructor.
AxisValues == {Num(0), Num(1), Num(2)}

\* Components of a batch passed to f by the caller.
XValues == {Num(0), Num(1)}

\* Values torch.randn can draw (a zero row has probability zero).
ZValues == {Frac(1, 2), Num(2)}

\* Values torch.rand can draw, in [0, 1).
ScaleValues == {Frac(1, 2), Frac(9, 10)}

\* The use_cuda argument of the constructor: its default.
UseCudaValues == {TRUE}

\* Shapes of a constructor argument: a scalar, a flat vector, a matrix.
CtorShapes ==
    {<<>>} \cup {<<n>> : n \in 0..MaxDim} \cup {<<1, n>> : n \in 1..MaxDim}

CtorTensors(Values) == UNION {TensorsOf(s, Values) : s \in CtorShapes}

\* Shapes of an argument of f: a flat vector, a batch, a stack of batches.
BatchShapes ==
    {<<m>> : m \in 0..MaxDim}
        \cup {<<b, m>> : b \in 1..MaxBatch, m \in 1..MaxDim}
        \cup {<<1, 1, m>> : m \in 1..MaxDim}

Batches == UNION {TensorsOf(s, XValues) : s \in BatchShapes}

---------------------------------------------------------------------------
\* EllipsoidSampler

\* __init__ without the assert that the two shapes are equal.
init_without_shape_assert(mu, axes, use_cuda) ==
    IF ~(Rank(mu) = Rank(axes) /\ Rank(axes) = 1)
    THEN [status |-> "AssertionError", self |-> None]
    ELSE [status |-> "ok",
          self   |-> [use_cuda |-> use_cuda, mu |-> mu, axes |-> axes,
                      dims     |-> mu.shape[1]]]

\* __init__ taking dims from the axes' rank, len(axes.shape), not mu.shape[0].
init_dims_from_rank(mu, axes, use_cuda) ==
    IF ~(Rank(mu) = Rank(axes) /\ Rank(axes) = 1)
    THEN [status |-> "AssertionError", self |-> None]
    ELSE IF mu.shape # axes.shape
    THEN [status |-> "AssertionError", self |-> None]
    ELSE [status |-> "ok",
          self   |-> [use_cuda |-> use_cuda, mu |-> mu, axes |-> axes,
                      dims     |-> Rank(axes)]]

\* __init__: the asserts, then the fields.
__init__(mu, axes, use_cuda) ==
    IF ~(Rank(mu) = Rank(axes) /\ Rank(axes) = 1)
    THEN [status |-> "AssertionError", self |-> None]
    ELSE IF mu.shape # axes.shape
    THEN [status |-> "AssertionError", self |-> None]
    ELSE [status |-> "ok",
          self   |-> [use_cuda |-> use_cuda,
                      mu       |-> IF use_cuda THEN cuda(mu) ELSE mu,
                      axes     |-> IF use_cuda THEN cuda(axes) ELSE axes,
                      dims     |-> mu.shape[1]]]

\* torch.pow(t, 2): a new tensor of the squares.
pow2(t) ==
    [shape |-> t.shape,
     data  |-> Elements([k \in 1..Len(t.data) |-> RMul(t.data[k], t.data[k])],
                        Len(t.data))]

\* Whether torch broadcasts a last dimension of size M against one of size N.
Broadcastable(M, N) == M = N \/ M = 1 \/ N = 1

\* The size the two broadcast to.
BroadcastDim(M, N) == IF M = 1 THEN N ELSE M

\* Xsq / Asq: a (B, M) tensor over a (N,) tensor, broadcast.
div(Xsq, Asq) ==
    LET B == Xsq.shape[1]
        M == Xsq.shape[2]
        N == Asq.shape[1]
        W == BroadcastDim(M, N)
    IN [shape |-> <<B, W>>,
        data  |-> Elements([k \in 1..(B * W) |->
                              RDiv(At(Xsq, RowOf(k, W), IF M = 1 THEN 1 ELSE ColOf(k, W)),
                                   Asq.data[IF N = 1 THEN 1 ELSE ColOf(k, W)])],
                           B * W)]

\* torch.sum(t, dim=-1): the (B,) tensor of the row sums.
sum_last(t) ==
    [shape |-> <<t.shape[1]>>,
     data  |-> Elements([r \in 1..t.shape[1] |-> RSum(Row(t, r))], t.shape[1])]

\* torch.sum(div, dim=-1) - 1
eq(d) ==
    LET s == sum_last(d)
    IN [shape |-> s.shape,
        data  |-> Elements([r \in 1..Len(s.data) |-> RSub(s.data[r], Num(1))],
                           Len(s.data))]

\* f keeping the squared axes in self.axes (self.axes = torch.pow(self.axes, 2)).
f_storing_squared_axes(obj, x) ==
    IF Rank(x) # 2
    THEN [status |-> "AssertionError", value |-> None, self |-> obj, x |-> x]
    ELSE IF ~Broadcastable(x.shape[2], obj.axes.shape[1])
    THEN [status |-> "RuntimeError", value |-> None, self |-> obj, x |-> x]
    ELSE [status |-> "ok", value |-> eq(div(pow2(x), pow2(obj.axes))),
          self |-> [obj EXCEPT !.axes = pow2(obj.axes)], x |-> x]

\* f: the value of the ellipsoid function for a batch x.  The result names
\* the object and the caller's tensor as the call leaves them.
f(obj, x) ==
    IF Rank(x) # 2
    THEN [status |-> "AssertionError", value |-> None, self |-> obj, x |-> x]
    ELSE LET xd  == IF obj.use_cuda THEN cuda(x) ELSE x
             Xsq == pow2(xd)
             Asq == pow2(obj.axes)
         IN IF ~Broadcastable(Xsq.shape[2], Asq.shape[1])
            THEN [status |-> "RuntimeError", value |-> None, self |-> obj, x |-> x]
            ELSE [status |-> "ok", value |-> eq(div(Xsq, Asq)), self |-> obj, x |-> x]

\* z / torch.sum(z**2, dim=-1).view((num_points, 1))
z_on_unit_sphere(z, num_points) ==
    LET s == sum_last(pow2(z))
        M == z.shape[2]
    IN [shape |-> <<num_points, M>>,
        data  |-> Elements([k \in 1..(num_points * M) |->
                              RDiv(z.data[k], s.data[RowOf(k, M)])],
                           num_points * M)]

\* z_on_unit_sphere * scale with a scale per row: row r takes scale ** r.
z_scaled_per_row(zs, scale) ==
    [shape |-> zs.shape,
     data  |-> Elements([k \in 1..Len(zs.data) |->
                           IF RowOf(k, zs.shape[2]) = 1
                           THEN RMul(zs.data[k], scale.data[1])
                           ELSE RMul(RMul(zs.data[k], scale.data[1]), scale.data[1])],
                        Len(zs.data))]

\* z_on_unit_sphere * scale, scale of shape (1,)
z_scaled(zs, scale) ==
    [shape |-> zs.shape,
     data  |-> Elements([k \in 1..Len(zs.data) |-> RMul(zs.data[k], scale.data[1])],
                        Len(zs.data))]

\* z_scaled * self.axes
z_ellipsoidal(zs, axes) ==
    [shape |-> zs.shape,
     data  |-> Elements([k \in 1..Len(zs.data) |->
                           RMul(zs.data[k], axes.data[ColOf(k, zs.shape[2])])],
                        Len(zs.data))]

\* z_ellipsoidal + self.mu
z_shifted(ze, mu) ==
    [shape |-> ze.shape,
     data  |-> Elements([k \in 1..Len(ze.data) |->
                           RAdd(ze.data[k], mu.data[ColOf(k, ze.shape[2])])],
                        Len(ze.data))]

\* self.f(z_shifted) <= 0: one boolean per row.
idx(obj, x) ==
    LET v == f(obj, x).value
    IN Elements([r \in 1..Len(v.data) |-> RLe(v.data[r], Num(0))], Len(v.data))

\* sample, for the draws z of torch.randn and scale of torch.rand.  The
\* result names, besides the return value, the locals z_on_unit_sphere and idx.
sample(obj, num_points, z, scale) ==
    LET zd  == IF obj.use_cuda THEN cuda(z) ELSE z
        zs  == z_on_unit_sphere(zd, num_points)
        sc  == IF obj.use_cuda THEN cuda(scale) ELSE scale
        zsh == z_shifted(z_ellipsoidal(z_scaled(zs, sc), obj.axes), obj.mu)
        ix  == idx(obj, zsh)
    IN IF Len(ix) # num_points
       THEN [status |-> "AssertionError", value |-> None, self |-> obj,
             z_on_unit_sphere |-> zs, idx |-> ix]
       ELSE [status |-> "ok", value |-> zsh, self |-> obj,
             z_on_unit_sphere |-> zs, idx |-> ix]

---------------------------------------------------------------------------
\* The client: constructs the sampler, then calls f and sample on it.

Init ==
    /\ self = None
    /\ call = [op |-> "none"]

Construct ==
    /\ call.op = "none"
    /\ self = None
    /\ \E mu \in CtorTensors(CenterValues), axes \in CtorTensors(AxisValues),
          use_cuda \in UseCudaValues :
          \E r \in {__init__(mu, axes, use_cuda)} :
             /\ self' = r.self
             /\ call' = [op |-> "__init__", mu |-> mu, axes |-> axes,
                         use_cuda |-> use_cuda, status |-> r.status]

Evaluate ==
    /\ call.op = "none"
    /\ self # None
    /\ \E x \in Batches :
          \E r \in {f(self, x)} :
             /\ self' = r.self
             /\ call' = [op |-> "f", x |-> x, x_after |-> r.x,
                         status |-> r.status, value |-> r.value]

Sample ==
    /\ call.op = "none"
    /\ self # None
    /\ \E num_points \in 1..MaxPoints :
       \E z \in TensorsOf(<<num_points, self.dims>>, ZValues),
          scale \in TensorsOf(<<1>>, ScaleValues) :
          \E r \in {sample(self, num_points, z, scale)} :
             /\ self' = r.self
             /\ call' = [op |-> "sample", num_points |-> num_points, z |-> z,
                         scale |-> scale, status |-> r.status, value |-> r.value,
                         z_on_unit_sphere |-> r.z_on_unit_sphere, idx |-> r.idx]

\* The caller is done with what the last call returned or raised.
Discard ==
    /\ call.op # "none"
    /\ call' = [op |-> "none"]
    /\ UNCHANGED self

Next == Construct \/ Evaluate \/ Sample \/ Discard

Spec == Init /\ [][Next]_vars

---------------------------------------------------------------------------
\* Vocabulary of the properties

\* The Ellipsoid invariant of the data model: at least one dimension, every
\* semi-axis strictly positive.
Valid(obj) ==
    /\ obj.dims >= 1
    /\ \A i \in 1..Len(obj.axes.data) : RGt(obj.axes.data[i], Num(0))

\* sum_i ((x_i - c_i) / a_i)^2 for row r of the batch x.
Quadratic(obj, x, r) ==
    RSum([i \in 1..x.shape[2] |->
            LET q == RDiv(RSub(At(x, r, i), obj.mu.data[i]), obj.axes.data[i])
            IN RMul(q, q)])

\* The squared Euclidean norm of row r of t.
SquaredNorm(t, r) == RSum(Row(pow2(t), r))

\* A sample call on a valid model has returned a batch of at least one point.
Sampled ==
    /\ call.op = "sample"
    /\ call.status = "ok"
    /\ call.num_points > 0
    /\ Valid(self)

\* C1: on a valid model, sample(num_points) returns a (num_points, N) matrix
\* and f of that matrix is <= 0 in every row, whatever z and scale are drawn.
C1_SampleEvaluatesInside ==
    Sampled =>
        /\ call.value.shape = <<call.num_points, self.dims>>
        /\ \A r \in 1..call.num_points :
              RLe(f(self, call.value).value.data[r], Num(0))

\* C2: every point sample returns lies in the ellipsoid of the model's centre
\* and semi-axes: sum_i ((x_i - c_i) / a_i)^2 <= 1.
C2_ReturnedPointsInEllipsoid ==
    Sampled =>
        \A r \in 1..call.value.shape[1] : RLe(Quadratic(self, call.value, r), Num(1))

\* C3: sample is all-or-nothing: it returns a batch only when every candidate
\* passed the cross-check f <= 0, and fails otherwise.
C3_AllOrNothing ==
    (call.op = "sample" /\ Valid(self) /\ \E r \in 1..Len(call.idx) : ~call.idx[r])
        => (call.status # "ok" /\ call.value = None)

\* C4: on a valid model, f of the one-row batch holding the centre is [-1].
C4_CenterEvaluatesToMinusOne ==
    (/\ call.op = "f"
     /\ Valid(self)
     /\ call.x = [shape |-> <<1, self.dims>>, data |-> self.mu.data])
        => (call.status = "ok" /\ call.value.data = <<Num(-1)>>)

\* Both constructor arguments are flat vectors of one length.
ShapesMatch(mu, axes) == Rank(mu) = 1 /\ Rank(axes) = 1 /\ mu.shape[1] = axes.shape[1]

\* C5: construction succeeds for two flat vectors of equal length, and fails,
\* leaving no model, when the lengths differ or an argument is not flat.
C5_ConstructionChecksShapes ==
    call.op = "__init__" =>
        IF ShapesMatch(call.mu, call.axes)
        THEN call.status = "ok" /\ self # None
        ELSE call.status = "AssertionError" /\ self = None

C5_Witness ==
    /\ call.op = "__init__"
    /\ Rank(call.mu) = 1 /\ Rank(call.axes) = 1
    /\ call.mu.shape[1] = 2 /\ call.axes.shape[1] = 1
    /\ call.status = "AssertionError"
    /\ self = None

\* C6: f fails, returning no values, for every input that is not a
\* 2-dimensional batch whose inner dimension is the model's dimension.
C6_EvaluateRejectsMismatch ==
    (/\ call.op = "f"
     /\ Valid(self)
     /\ ~(Rank(call.x) = 2 /\ call.x.shape[2] = self.dims))
        => (call.status # "ok" /\ call.value = None)

\* C7 as stated: every constructed model has len(center) = len(semiAxes) =
\* dimension >= 1 and strictly positive semi-axes.
C7_EllipsoidInvariant ==
    self # None =>
        /\ Len(self.mu.data) = self.dims
        /\ Len(self.axes.data) = self.dims
        /\ Valid(self)

\* C7 as amended: every constructed model has len(center) = len(semiAxes) =
\* dimension and holds the centre and the semi-axes as supplied; it has
\* dimension >= 1 and strictly positive semi-axes when the arguments had.
C7_ShapeInvariant ==
    /\ self # None =>
          /\ self.mu.shape = <<self.dims>>
          /\ self.axes.shape = <<self.dims>>
          /\ Len(self.mu.data) = self.dims
          /\ Len(self.axes.data) = self.dims
    /\ (call.op = "__init__" /\ call.status = "ok") =>
          /\ self.mu = call.mu
          /\ self.axes = call.axes
          /\ (/\ call.mu.shape[1] >= 1
              /\ \A i \in 1..Len(call.axes.data) : RGt(call.axes.data[i], Num(0)))
                => Valid(self)

C7_Witness ==
    /\ call.op = "__init__"
    /\ call.status = "ok"
    /\ self # None
    /\ self.dims = 2
    /\ Valid(self)

\* C8: once constructed the model is read-only: no call of f or sample,
\* failing or not, changes mu, axes, dims or use_cuda, and f leaves the batch
\* it is passed as it was.
C8_ModelReadOnly ==
    [][/\ self # None => self' = self
       /\ call'.op = "f" => call'.x_after = call'.x]_vars

C8_Witness ==
    /\ call.op = "f"
    /\ call.status = "ok"
    /\ call.x.shape = <<1, 2>>
    /\ self.dims = 2
    /\ self.axes.data = <<Num(2), Num(1)>>

\* C9: every row of the direction matrix z_on_unit_sphere has Euclidean norm 1.
C9_DirectionsOnUnitSphere ==
    (call.op = "sample" /\ Valid(self)) =>
        \A r \in 1..call.num_points :
            SquaredNorm(call.z_on_unit_sphere, r) = Num(1)

\* C10: one scale is applied to every row of a sample call: for every row r
\* and dimension i, (x[r][i] - center[i]) / semiAxes[i] = direction[r][i] * scale.
C10_SharedScale ==
    Sampled =>
        \A r \in 1..call.num_points : \A i \in 1..self.dims :
            RDiv(RSub(At(call.value, r, i), self.mu.data[i]), self.axes.data[i])
                = RMul(At(call.z_on_unit_sphere, r, i), call.scale.data[1])

C10_Witness ==
    /\ Sampled
    /\ call.num_points = 2
    /\ self.dims = 2
    /\ self.mu.data = <<Num(1), Num(0)>>
    /\ self.axes.data = <<Num(2), Num(1)>>
    /\ call.z.data = <<Frac(1, 2), Num(2), Num(2), Num(2)>>
    /\ call.scale.data = <<Frac(9, 10)>>

====
